---- MODULE Spec2Model ----
(***************************************************************************)
(* State-machine model of the FTS5 auxiliary function matched_columns      *)
(* (src/AuxiliaryFunctions/matched_columns.c, matched_columns_imp).        *)
(*                                                                         *)
(* One call is modelled statement by statement.  A C string is a sequence  *)
(* of one-character strings; a heap block handed out by sqlite3_malloc is  *)
(* its capacity plus the C string found at its first byte (the bytes up to *)
(* the first NUL), which for a fresh block is whatever the allocator left  *)
(* there.                                                                  *)
(***************************************************************************)
EXTENDS Integers, Sequences, FiniteSets

VARIABLES
    nVal,              \* argument count passed by the host
    ctx,               \* the match context: [columnCount, phrases]
    ptrSize,           \* sizeof(char *) of the build
    lowMemory,         \* whether the allocator can run out of memory
    pc,                \* position in matched_columns_imp
    numberOfColumns,   \* local, -1 until assigned
    numberOfPhrases,   \* local, -1 until assigned
    matchedColumns,    \* [null, cap, str]: the output buffer
    columnSet,         \* [null, cap, set]: set = indexes whose element holds true
    phraseIndex,       \* loop variable of the outer loop
    phraseIterator,    \* position of the column iterator in the current phrase
    columnIndex,       \* last index written by the iterator
    result,            \* what the result sink was handed: [kind, text]
    live,              \* heap blocks obtained and not yet released
    apiCalls,          \* host API functions called so far in this call
    oom,               \* allocations that failed for lack of memory
    faults,            \* memory-safety violations that have happened
    appends,           \* number of strncat calls made in this call
    rows,              \* number of the row being evaluated (1, 2, ...)
    prev               \* result of the previous row's call

vars == <<nVal, ctx, ptrSize, lowMemory, pc, numberOfColumns, numberOfPhrases,
          matchedColumns, columnSet, phraseIndex, phraseIterator, columnIndex,
          result, live, apiCalls, oom, faults, appends, rows, prev>>

----------------------------------------------------------------------------
(* Bounds of the model *)

\* the host passes 0..MaxArgs arguments
MaxArgs == 2
\* a query holds at most MaxPhrases phrases
MaxPhrases == 2
\* a misbehaving iterator yields at most MaxYield indexes per phrase
MaxYield == 2
\* the same match context is evaluated for at most MaxRows rows
MaxRows == 2

\* column counts of the modelled tables (1-, 2- and 3-digit indexes)
ColumnCounts == {0, 1, 11, 101}
\* the column indexes the iterators draw from
SampleColumns == {0, 10, 100}
\* sizeof(char *) on 32-bit and 64-bit builds
PointerSizes == {4, 8}
\* bytes an allocator may have left in a fresh block, and how many of them
\* precede the first NUL
GarbageChars == {"1", "?"}
GarbageLens == {0, 1, 4, 8}

Min(a, b) == IF a <= b THEN a ELSE b

----------------------------------------------------------------------------
(* Text *)

DigitChars == <<"0", "1", "2", "3", "4", "5", "6", "7", "8", "9">>

RECURSIVE Decimal(_)
\* "%d" of a non-negative int
Decimal(n) ==
    IF n < 10 THEN <<DigitChars[n + 1]>>
    ELSE Decimal(n \div 10) \o <<DigitChars[(n % 10) + 1]>>

\* sqlite3_mprintf(formatString, columnIndex), formatString chosen by strlen
FormatColumnIndex(destLen, c) ==
    IF destLen > 0 THEN <<",">> \o Decimal(c) ELSE Decimal(c)

\* number of characters strncat(dest, src, sizeof(dest)-strlen(dest)-1) copies:
\* the bound is a size_t, so when strlen(dest)+1 exceeds sizeof(char *) it
\* wraps modulo 2^(8*ptrSize) to a value above any source length
StrncatCount(destLen, srcLen) ==
    IF destLen + 1 <= ptrSize
    THEN Min(ptrSize - destLen - 1, srcLen)
    ELSE srcLen

Strncat(dest, src) ==
    dest \o SubSeq(src, 1, StrncatCount(Len(dest), Len(src)))

----------------------------------------------------------------------------
(* The match context provider *)

RECURSIVE Ascending(_)
\* the members of S as an ascending sequence
Ascending(S) ==
    IF S = {} THEN <<>>
    ELSE LET m == CHOOSE x \in S : \A y \in S : x <= y
         IN  <<m>> \o Ascending(S \ {m})

\* column indexes of a table of n columns that the iterators draw from
Columns(n) == {c \in SampleColumns : c < n}

\* what xPhraseFirstColumn/xPhraseNextColumn of FTS5 yield for one phrase: the
\* columns holding the phrase, each once, ascending (none with detail=none)
Fts5ColumnLists(n) == {Ascending(S) : S \in SUBSET Columns(n)}

\* what an iterator that breaks the protocol may yield: any indexes, in any
\* order, repeated, and the index one past the last column
AnyColumnLists(n) ==
    UNION {[1..k -> Columns(n) \cup {n}] : k \in 0..MaxYield}

PhraseLists(lists) == UNION {[1..k -> lists] : k \in 0..MaxPhrases}

Fts5Contexts ==
    UNION {[columnCount : {n}, phrases : PhraseLists(Fts5ColumnLists(n))]
             : n \in ColumnCounts}

AnyContexts ==
    UNION {[columnCount : {n}, phrases : PhraseLists(AnyColumnLists(n))]
             : n \in ColumnCounts}

\* the index the iterator of phrase p (0-based) writes at position i; -1 once
\* the phrase's columns are exhausted
Yield(p, i) ==
    IF i <= Len(ctx.phrases[p + 1]) THEN ctx.phrases[p + 1][i] ELSE -1

----------------------------------------------------------------------------
(* The allocator *)

NullBlock == [null |-> TRUE, cap |-> 0, str |-> <<>>]
NullSet == [null |-> TRUE, cap |-> 0, set |-> {}]
NoResult == [kind |-> "none", text |-> <<>>]

\* the C strings that may be found at the first byte of a fresh block
Garbage == {[i \in 1..k |-> ch] : ch \in GarbageChars, k \in GarbageLens}

\* sqlite3_malloc(size): NULL for size <= 0, NULL when out of memory, else a
\* block of size bytes that is not cleared
CanFail(size) == lowMemory /\ size > 0

----------------------------------------------------------------------------
(* Initial state: the host is about to call matched_columns_imp *)

Locals ==
    /\ pc = "entry"
    /\ numberOfColumns = -1
    /\ numberOfPhrases = -1
    /\ matchedColumns = NullBlock
    /\ columnSet = NullSet
    /\ phraseIndex = 0
    /\ phraseIterator = 0
    /\ columnIndex = 0
    /\ result = NoResult
    /\ live = {}
    /\ apiCalls = {}
    /\ oom = {}
    /\ faults = {}
    /\ appends = 0

InitWith(contexts, scarce) ==
    /\ nVal \in 0..MaxArgs
    /\ ctx \in contexts
    /\ ptrSize \in PointerSizes
    /\ lowMemory = scarce
    /\ Locals
    /\ rows = 1
    /\ prev = NoResult

Init == InitWith(Fts5Contexts, FALSE)

InitOom == InitWith(Fts5Contexts, TRUE)

InitProto == InitWith(AnyContexts, FALSE)

Inputs == <<nVal, ctx, ptrSize, lowMemory, rows, prev>>

----------------------------------------------------------------------------
(* matched_columns_imp *)

\* the arity test comparing against the wrong count
WrongArityOffByOne(n) == n > 1

\* line 35
WrongArity(n) == n # 0

\* lines 35-39
ArityError ==
    /\ pc = "entry"
    /\ WrongArity(nVal)
    /\ result' = [kind |-> "error", text |-> <<>>]
    /\ apiCalls' = apiCalls \cup {"sqlite3_result_error"}
    /\ pc' = "done"
    /\ UNCHANGED <<Inputs, numberOfColumns, numberOfPhrases, matchedColumns,
                   columnSet, phraseIndex, phraseIterator, columnIndex, live,
                   oom, faults, appends>>

\* lines 35, 44-45: the output buffer of 3 bytes per column
AllocMatchedColumns ==
    /\ pc = "entry"
    /\ ~WrongArity(nVal)
    /\ numberOfColumns' = ctx.columnCount
    /\ apiCalls' = apiCalls \cup {"xColumnCount", "sqlite3_malloc"}
    /\ LET size == ctx.columnCount * 3 IN
         \/ /\ size <= 0
            /\ matchedColumns' = NullBlock
            /\ UNCHANGED <<live, oom>>
         \/ /\ CanFail(size)
            /\ matchedColumns' = NullBlock
            /\ oom' = oom \cup {"matchedColumns"}
            /\ UNCHANGED live
         \/ /\ size > 0
            /\ \E g \in Garbage :
                 matchedColumns' = [null |-> FALSE, cap |-> size, str |-> g]
            /\ live' = live \cup {"matchedColumns"}
            /\ UNCHANGED oom
    /\ pc' = "columnSet"
    /\ UNCHANGED <<Inputs, numberOfPhrases, columnSet, phraseIndex,
                   phraseIterator, columnIndex, result, faults, appends>>

\* lines 48-52: the seen-set of one bool per column
AllocColumnSet ==
    /\ pc = "columnSet"
    /\ numberOfPhrases' = Len(ctx.phrases)
    /\ apiCalls' = apiCalls \cup {"xPhraseCount", "sqlite3_malloc"}
    /\ LET size == numberOfColumns IN
         \/ /\ size <= 0
            /\ columnSet' = NullSet
            /\ UNCHANGED <<live, oom>>
         \/ /\ CanFail(size)
            /\ columnSet' = NullSet
            /\ oom' = oom \cup {"columnSet"}
            /\ UNCHANGED live
         \/ /\ size > 0
            /\ columnSet' = [null |-> FALSE, cap |-> size, set |-> {}]
            /\ live' = live \cup {"columnSet"}
            /\ UNCHANGED oom
    /\ phraseIndex' = 0
    /\ pc' = "phrase"
    /\ UNCHANGED <<Inputs, numberOfColumns, matchedColumns, phraseIterator,
                   columnIndex, result, faults, appends>>

\* lines 56, 60-62: next phrase, xPhraseFirstColumn
PhraseFirstColumn ==
    /\ pc = "phrase"
    /\ phraseIndex < numberOfPhrases
    /\ phraseIterator' = 1
    /\ columnIndex' = Yield(phraseIndex, 1)
    /\ apiCalls' = apiCalls \cup {"xPhraseFirstColumn"}
    /\ pc' = "test"
    /\ UNCHANGED <<Inputs, numberOfColumns, numberOfPhrases, matchedColumns,
                   columnSet, phraseIndex, result, live, oom, faults, appends>>

\* lines 63, 56: the iterator signalled exhaustion, phraseIndex++
EndPhrase ==
    /\ pc = "test"
    /\ ~(columnIndex >= 0)
    /\ phraseIndex' = phraseIndex + 1
    /\ pc' = "phrase"
    /\ UNCHANGED <<Inputs, numberOfColumns, numberOfPhrases, matchedColumns,
                   columnSet, phraseIterator, columnIndex, result, live,
                   apiCalls, oom, faults, appends>>

\* line 64: xPhraseNextColumn
PhraseNextColumn ==
    /\ pc = "next"
    /\ phraseIterator' = phraseIterator + 1
    /\ columnIndex' = Yield(phraseIndex, phraseIterator + 1)
    /\ apiCalls' = apiCalls \cup {"xPhraseNextColumn"}
    /\ pc' = "test"
    /\ UNCHANGED <<Inputs, numberOfColumns, numberOfPhrases, matchedColumns,
                   columnSet, phraseIndex, result, live, oom, faults, appends>>

\* line 68: columnSet[columnIndex] == false.  An element that was never written
\* holds whatever the allocator left there and compares either way; an index
\* at or past the column count reads past the block.
TestColumn ==
    /\ pc = "test"
    /\ columnIndex >= 0
    /\ \/ /\ columnSet.null
          /\ faults' = faults \cup {"null_deref"}
          /\ pc' = "crashed"
          /\ UNCHANGED columnSet
       \/ /\ ~columnSet.null
          /\ columnIndex \in columnSet.set
          /\ pc' = "next"
          /\ UNCHANGED <<columnSet, faults>>
       \/ /\ ~columnSet.null
          /\ columnIndex \notin columnSet.set
          /\ faults' = IF columnIndex < columnSet.cap THEN faults
                       ELSE faults \cup {"oob_columnSet"}
          /\ \E leftover \in BOOLEAN :
               IF leftover
               THEN /\ columnSet' = [columnSet EXCEPT !.set = @ \cup {columnIndex}]
                    /\ pc' = "next"
               ELSE /\ pc' = "append"
                    /\ UNCHANGED columnSet
    /\ UNCHANGED <<Inputs, numberOfColumns, numberOfPhrases, matchedColumns,
                   phraseIndex, phraseIterator, columnIndex, result, live,
                   apiCalls, oom, appends>>

\* bytes of the block at matchedColumns that hold the string s and its NUL
Fits(s) == Len(s) + 1 <= matchedColumns.cap

\* lines 71-77: mark the column, format its index, strncat it to the buffer
AppendColumn ==
    /\ pc = "append"
    /\ columnSet' = [columnSet EXCEPT !.set = @ \cup {columnIndex}]
    /\ \/ \* strlen(NULL)
          /\ matchedColumns.null
          /\ faults' = faults \cup {"null_deref"}
          /\ pc' = "crashed"
          /\ UNCHANGED <<matchedColumns, apiCalls, oom, appends>>
       \/ \* sqlite3_mprintf returns NULL, strncat reads it
          /\ ~matchedColumns.null
          /\ oom' = oom \cup {"formattedColumnIndex"}
          /\ apiCalls' = apiCalls \cup {"sqlite3_mprintf"}
          /\ faults' = (IF Fits(matchedColumns.str) THEN faults
                        ELSE faults \cup {"oob_matchedColumns"})
                       \cup {"null_deref"}
          /\ pc' = "crashed"
          /\ UNCHANGED <<matchedColumns, appends>>
       \/ /\ ~matchedColumns.null
          /\ LET dest == matchedColumns.str
                 formattedColumnIndex == FormatColumnIndex(Len(dest), columnIndex)
                 cat == Strncat(dest, formattedColumnIndex)
             IN  /\ matchedColumns' = [matchedColumns EXCEPT !.str = cat]
                 /\ faults' = IF Fits(dest) /\ Fits(cat) THEN faults
                              ELSE faults \cup {"oob_matchedColumns"}
          /\ apiCalls' = apiCalls \cup {"sqlite3_mprintf", "sqlite3_free"}
          /\ appends' = appends + 1
          /\ pc' = "next"
          /\ UNCHANGED oom
    /\ UNCHANGED <<Inputs, numberOfColumns, numberOfPhrases, phraseIndex,
                   phraseIterator, columnIndex, result, live>>

\* lines 56, 83-85: the loop is over; hand the buffer to the sink, free both
ResultText ==
    /\ pc = "phrase"
    /\ ~(phraseIndex < numberOfPhrases)
    /\ IF matchedColumns.null
       THEN /\ result' = [kind |-> "null", text |-> <<>>]
            /\ UNCHANGED faults
       ELSE /\ result' = [kind |-> "text", text |-> matchedColumns.str]
            /\ faults' = IF Fits(matchedColumns.str) THEN faults
                         ELSE faults \cup {"oob_matchedColumns"}
    /\ apiCalls' = apiCalls \cup {"sqlite3_result_text", "sqlite3_free"}
    /\ live' = {}
    /\ pc' = "done"
    /\ UNCHANGED <<Inputs, numberOfColumns, numberOfPhrases, matchedColumns,
                   columnSet, phraseIndex, phraseIterator, columnIndex, oom,
                   appends>>

\* an access past the end of a heap block is undefined: the call may go on
\* with the heap silently damaged, or the process may be stopped
Crash ==
    /\ pc \in {"test", "append", "next", "phrase"}
    /\ faults \cap {"oob_columnSet", "oob_matchedColumns"} # {}
    /\ pc' = "crashed"
    /\ UNCHANGED <<Inputs, numberOfColumns, numberOfPhrases, matchedColumns,
                   columnSet, phraseIndex, phraseIterator, columnIndex, result,
                   live, apiCalls, oom, faults, appends>>

\* line 99: the host evaluates the function once per matched row; here the next
\* row has the same match context
NextRow ==
    /\ pc = "done"
    /\ rows < MaxRows
    /\ rows' = rows + 1
    /\ prev' = result
    /\ pc' = "entry"
    /\ numberOfColumns' = -1
    /\ numberOfPhrases' = -1
    /\ matchedColumns' = NullBlock
    /\ columnSet' = NullSet
    /\ phraseIndex' = 0
    /\ phraseIterator' = 0
    /\ columnIndex' = 0
    /\ result' = NoResult
    /\ live' = {}
    /\ apiCalls' = {}
    /\ oom' = {}
    /\ faults' = {}
    /\ appends' = 0
    /\ UNCHANGED <<nVal, ctx, ptrSize, lowMemory>>

Next ==
    \/ ArityError
    \/ AllocMatchedColumns
    \/ AllocColumnSet
    \/ PhraseFirstColumn
    \/ EndPhrase
    \/ PhraseNextColumn
    \/ TestColumn
    \/ AppendColumn
    \/ ResultText
    \/ Crash

NextRows == Next \/ NextRow

\* one call, the iterators of FTS5, memory available
Spec == Init /\ [][Next]_vars

\* one call, the iterators of FTS5, allocations may fail
SpecOom == InitOom /\ [][Next]_vars

\* one call, iterators that may break the protocol
SpecProto == InitProto /\ [][Next]_vars

\* successive rows with the same match context
SpecRows == Init /\ [][NextRows]_vars

----------------------------------------------------------------------------
(* Reading the result *)

RECURSIVE Split(_)
\* the pieces of s between its commas
Split(s) ==
    IF \A i \in 1..Len(s) : s[i] # ","
    THEN <<s>>
    ELSE LET i == CHOOSE k \in 1..Len(s) :
                    s[k] = "," /\ \A j \in 1..(k - 1) : s[j] # ","
         IN  <<SubSeq(s, 1, i - 1)>> \o Split(SubSeq(s, i + 1, Len(s)))

\* the entries of a comma-separated list; the empty text is the empty list
Entries(s) == IF s = <<>> THEN <<>> ELSE Split(s)

Occurrences(e, list) == Cardinality({i \in 1..Len(list) : list[i] = e})

\* the largest column index a table of the model can have
MaxIndex == CHOOSE m \in ColumnCounts : \A n \in ColumnCounts : n <= m

DecimalForms == {Decimal(c) : c \in 0..MaxIndex}

\* every entry is a decimal number; separators are single commas between entries
WellFormedList(s) == \A i \in 1..Len(Entries(s)) : Entries(s)[i] \in DecimalForms

\* the indexes the iterator of phrase p (1-based here) yields
YieldedBy(p) == {ctx.phrases[p][i] : i \in 1..Len(ctx.phrases[p])}

Yielded == UNION {YieldedBy(p) : p \in 1..Len(ctx.phrases)}

RECURSIVE Flatten(_)
Flatten(lists) ==
    IF lists = <<>> THEN <<>> ELSE Head(lists) \o Flatten(Tail(lists))

RECURSIVE FirstOccurrences(_, _)
FirstOccurrences(seq, seen) ==
    IF seq = <<>> THEN <<>>
    ELSE IF Head(seq) \in seen THEN FirstOccurrences(Tail(seq), seen)
    ELSE <<Head(seq)>> \o FirstOccurrences(Tail(seq), seen \cup {Head(seq)})

\* phrases ascending, yield order within a phrase, first occurrence kept
FirstSeen == FirstOccurrences(Flatten(ctx.phrases), {})

\* a zero-argument call has returned to the host
Returned == pc = "done" /\ nVal = 0

----------------------------------------------------------------------------
(* Properties *)

\* C1 (Completeness): when a zero-argument call returns, every column index
\* yielded by any phrase's iterator appears exactly once, as a whole decimal
\* number, in the text handed to the result sink.
Completeness ==
    Returned =>
        \A c \in Yielded : Occurrences(Decimal(c), Entries(result.text)) = 1

\* C2 (Uniqueness): no column index appears twice in the text handed to the
\* result sink.
Uniqueness ==
    Returned =>
        \A e \in DecimalForms : Occurrences(e, Entries(result.text)) <= 1

\* C3 (Order law): the entries of the returned text are the yielded indexes in
\* first-seen order, phrases ascending and yield order within a phrase.
OrderLaw ==
    (Returned /\ result.kind = "text") =>
        Entries(result.text) = [i \in 1..Len(FirstSeen) |-> Decimal(FirstSeen[i])]

\* C4 (Rendering format): after any sequence of appends the output text is a
\* list of decimal numbers separated by single commas, with no leading and no
\* trailing comma.
RenderingFormat ==
    (appends > 0 /\ ~matchedColumns.null) => WellFormedList(matchedColumns.str)

\* C5 (Empty cases): a zero-argument call with no phrases, no columns, or only
\* empty column iterators hands the sink the empty string as a text value.
EmptyCases ==
    (Returned /\ (numberOfPhrases = 0 \/ numberOfColumns = 0 \/ Yielded = {})) =>
        result = [kind |-> "text", text |-> <<>>]

\* C6 (Arity error): with a nonzero argument count an error is reported through
\* the sink and aggregation never starts: no count is read, no buffer is
\* allocated, no iterator is opened and no text result is produced.
ArityErrorAborts ==
    nVal # 0 =>
        /\ pc \in {"entry", "done"}
        /\ apiCalls \subseteq {"sqlite3_result_error"}
        /\ numberOfColumns = -1 /\ numberOfPhrases = -1
        /\ matchedColumns = NullBlock /\ columnSet = NullSet /\ live = {}
        /\ phraseIterator = 0
        /\ result.kind \in {"none", "error"}
        /\ pc = "done" => result.kind = "error"

\* C6 witness: a call with arguments has returned with the error reported
ArityErrorReported ==
    nVal # 0 /\ pc = "done" /\ result.kind = "error"

\* C7 (Allocation failure): when the output buffer or the seen-set cannot be
\* obtained, the call reports an error through the sink, never dereferences the
\* failed buffer, returns no text and releases what it obtained.
AllocationFailureReported ==
    oom \cap {"matchedColumns", "columnSet"} # {} =>
        /\ pc # "crashed"
        /\ "null_deref" \notin faults
        /\ result.kind \notin {"text", "null"}
        /\ pc = "done" => (result.kind = "error" /\ live = {})

\* C8 (Determinism): the calls for two rows with the same match context return
\* the same result, whatever the allocator left in the blocks it handed out.
Determinism ==
    (Returned /\ rows > 1) => result = prev

\* C9 (Iterator protocol violation): an index outside 0..columnCount-1 is
\* reported as an error, and the seen-set is never accessed outside its block.
SeenSetAccessInRange ==
    /\ "oob_columnSet" \notin faults
    /\ (Returned /\ \E c \in Yielded : c >= ctx.columnCount) =>
           result.kind = "error"

\* C10 (Output buffer sufficiency): the text and its terminator fit the
\* 3 * numberOfColumns bytes of the buffer, and nothing reads or writes past it.
BufferSufficient ==
    /\ "oob_matchedColumns" \notin faults
    /\ (appends > 0 /\ ~matchedColumns.null) =>
           Len(matchedColumns.str) + 1 <= 3 * numberOfColumns

====
